---- MODULE Spec2Model ----
(***************************************************************************)
(* Model of wyoming_porcupine1/__main__.py: the process-wide State (keyword *)
(* registry, detector cache and its lock) and one Porcupine1EventHandler    *)
(* per client connection.  Every handle_event branch is one atomic action:  *)
(* the handlers run on one asyncio loop and share no mutable data besides   *)
(* State, whose methods contain no suspension point.                        *)
(***************************************************************************)
EXTENDS Integers, Sequences, FiniteSets, TLC

\* ------------------------------------------------------------------ bounds
FrameLength == 1      \* porcupine.frame_length of the engine, in samples
MaxChunk == 4         \* largest normalized AudioChunk payload, in bytes
MaxBytes == 5         \* audio bytes sent over a run of one session
PoolBytes == 2        \* audio bytes sent over a run of concurrent sessions
MaxConnects == 2      \* connections accepted over a run
MaxDetectors == 2     \* engine instances constructed over a run

\* ------------------------------------------------------- values and inputs
\* The connection slots: two clients can be connected at once.
Sessions == {1, 2}

\* self.detector = None
NoDetector == 0

\* The byte values audio payloads are built from (0x00 and 0xFF).
Bytes == {0, 255}

RECURSIVE SeqsUpTo(_, _)
SeqsUpTo(S, n) ==
    IF n = 0 THEN {<<>>}
    ELSE LET shorter == SeqsUpTo(S, n - 1)
         IN  shorter \cup {Append(q, b) : q \in {x \in shorter : Len(x) = n - 1}, b \in S}

\* chunk.audio after self.converter.convert(chunk): 16 kHz, 16 bit, mono bytes.
ChunkAudio == SeqsUpTo(Bytes, MaxChunk)

\* chunk.timestamp
Timestamps == {0, 1}

\* detect.names of a Detect event ("jarvis" is in no registry).
DetectNames == {<<>>, <<"alexa">>, <<"jarvis">>}

\* Keyword(language, name, model_path)
Keyword(lang, nm) == [language |-> lang, name |-> nm, model_path |-> <<lang, nm>>]

\* The keywords dict main() builds (insertion ordered; never None).
Registries ==
    { <<>>,
      <<Keyword("en", "alexa")>>,
      <<Keyword("en", "computer"), Keyword("en", "alexa")>>,
      <<Keyword("fr", "bonjour"), Keyword("en", "computer")>> }

\* The pv_lib_paths dict main() builds, as the set of its language keys.
LibPaths == { {"en"}, {"fr"} }

VARIABLES
    keywords,         \* State.keywords
    pv_lib_paths,     \* State.pv_lib_paths (its keys)
    detector_cache,   \* State.detector_cache: the idle detectors
    detector_lock,    \* State.detector_lock is held
    created,          \* engine instances pvporcupine.create has returned
    connects,         \* handlers constructed so far
    budget,           \* audio bytes the clients still send, all sessions together
    phase,            \* per slot: "unused", "unconnected", "running", "ending", "disconnected"
    detector,         \* handler.detector (NoDetector or an instance)
    chunk_format,     \* handler.chunk_format, as its number of "h"
    bytes_per_chunk,  \* handler.bytes_per_chunk
    audio_buffer,     \* handler.audio_buffer
    detected,         \* handler.detected
    stream,           \* all bytes appended to audio_buffer by this handler
    frames,           \* every argument passed to porcupine.process by this handler
    positive,         \* process() has returned an index >= 0 since the last AudioStart
    last,             \* the event handled last and how handle_event ended
    trace             \* process() calls and write_event() calls of that event

vars == << keywords, pv_lib_paths, detector_cache, detector_lock, created, connects,
           budget,
           phase, detector, chunk_format, bytes_per_chunk, audio_buffer, detected,
           stream, frames, positive, last, trace >>

shared == << keywords, pv_lib_paths, detector_cache, detector_lock >>

\* ------------------------------------------------------------------ events
Event(type, nm, ts) == [type |-> type, name |-> nm, timestamp |-> ts]

InfoEvent == Event("info", "", 0)

NotDetectedEvent == Event("not-detected", "", 0)

\* Detection(name='alexa', timestamp=chunk.timestamp).event()
DetectionEvent(index, ts) == Event("detection", "alexa", ts)

NoEvent == Event("", "", 0)

ProcessCall(index) == [op |-> "process", index |-> index, event |-> NoEvent]

WriteCall(e) == [op |-> "write", index |-> -1, event |-> e]

\* What handle_event was given and how it ended: "True", "False" or the exception.
Handled(type, names, outcome) == [type |-> type, names |-> names, outcome |-> outcome]

NothingHandled == Handled("", <<>>, "")

\* ----------------------------------------------------------- get_porcupine
\* A selection that takes the keywords of every language.
RECURSIVE KeywordsPaths_AllLanguages(_)
KeywordsPaths_AllLanguages(kws) ==
    IF kws = <<>> THEN <<>>
    ELSE <<Head(kws).model_path>> \o KeywordsPaths_AllLanguages(Tail(kws))

RECURSIVE KeywordsPaths(_)
KeywordsPaths(kws) ==
    IF kws = <<>> THEN <<>>
    ELSE IF Head(kws).language = "en"
         THEN <<Head(kws).model_path>> \o KeywordsPaths(Tail(kws))
         ELSE KeywordsPaths(Tail(kws))

\* The name of the keyword a keyword path was built from.
PathName(path) == path[2]

\* A create that hands out one shared instance.
NewDetector_Shared(n) == 1

\* The instance pvporcupine.create returns: a new one on every call.
NewDetector(n) == n + 1

\* `self.keywords is None`: main() always passes a dict, empty when no keyword
\* file was found.
KeywordsIsNone == FALSE

\* How get_porcupine can end: the exception it raises, or "ok".
GetPorcupineOutcomes ==
    IF KeywordsIsNone THEN {"ValueError"}
    ELSE IF KeywordsPaths(keywords) = <<>> THEN {"IndexError"}
    ELSE IF "en" \notin pv_lib_paths THEN {"KeyError"}
    ELSE {"ok", "PorcupineError"}

\* ----------------------------------------------------------- session state
Start(slots, bytes) ==
    /\ keywords \in Registries
    /\ pv_lib_paths \in LibPaths
    /\ detector_cache = {}
    /\ detector_lock = FALSE
    /\ created = 0
    /\ connects = 0
    /\ budget = bytes
    /\ phase = [s \in Sessions |-> IF s \in slots THEN "unconnected" ELSE "unused"]
    /\ detector = [s \in Sessions |-> NoDetector]
    /\ chunk_format = [s \in Sessions |-> 0]
    /\ bytes_per_chunk = [s \in Sessions |-> 0]
    /\ audio_buffer = [s \in Sessions |-> <<>>]
    /\ detected = [s \in Sessions |-> FALSE]
    /\ stream = [s \in Sessions |-> <<>>]
    /\ frames = [s \in Sessions |-> <<>>]
    /\ positive = [s \in Sessions |-> FALSE]
    /\ last = [s \in Sessions |-> NothingHandled]
    /\ trace = [s \in Sessions |-> <<>>]

\* Concurrent clients, each sending little audio.
Init == Start(Sessions, PoolBytes)

\* One client sending audio in chunks of every size.
InitAudio == Start({1}, MaxBytes)

\* Porcupine1EventHandler.__init__
Connect(s) ==
    /\ phase[s] \in {"unconnected", "disconnected"}
    /\ connects < MaxConnects
    /\ connects' = connects + 1
    /\ phase' = [phase EXCEPT ![s] = "running"]
    /\ detector' = [detector EXCEPT ![s] = NoDetector]
    /\ chunk_format' = [chunk_format EXCEPT ![s] = 0]
    /\ bytes_per_chunk' = [bytes_per_chunk EXCEPT ![s] = 0]
    /\ audio_buffer' = [audio_buffer EXCEPT ![s] = <<>>]
    /\ detected' = [detected EXCEPT ![s] = FALSE]
    /\ stream' = [stream EXCEPT ![s] = <<>>]
    /\ frames' = [frames EXCEPT ![s] = <<>>]
    /\ positive' = [positive EXCEPT ![s] = FALSE]
    /\ last' = [last EXCEPT ![s] = NothingHandled]
    /\ trace' = [trace EXCEPT ![s] = <<>>]
    /\ UNCHANGED << shared, created, budget >>

\* ---------------------------------------------------------- _load_keyword
\* A _load_keyword that binds the detector without setting the frame size.
LoadKeyword_NoFrameSize(s, o) ==
    IF o = "ok"
    THEN /\ created' = created + 1
         /\ detector' = [detector EXCEPT ![s] = NewDetector(created)]
         /\ UNCHANGED << chunk_format, bytes_per_chunk >>
    ELSE UNCHANGED << created, detector, chunk_format, bytes_per_chunk >>

\* A failed acquisition that drops the detectors of all sessions.
LoadKeyword_FailureDropsAll(s, o) ==
    IF o = "ok"
    THEN /\ created' = created + 1
         /\ detector' = [detector EXCEPT ![s] = NewDetector(created)]
         /\ chunk_format' = [chunk_format EXCEPT ![s] = FrameLength]
         /\ bytes_per_chunk' = [bytes_per_chunk EXCEPT ![s] = FrameLength * 2]
    ELSE /\ detector' = [t \in Sessions |-> NoDetector]
         /\ UNCHANGED << created, chunk_format, bytes_per_chunk >>

\* self.detector, self.chunk_format and self.bytes_per_chunk after
\* `await self._load_keyword()` ended with outcome o; an exception leaves all three.
LoadKeyword(s, o) ==
    IF o = "ok"
    THEN /\ created' = created + 1
         /\ detector' = [detector EXCEPT ![s] = NewDetector(created)]
         /\ chunk_format' = [chunk_format EXCEPT ![s] = FrameLength]
         /\ bytes_per_chunk' = [bytes_per_chunk EXCEPT ![s] = FrameLength * 2]
    ELSE UNCHANGED << created, detector, chunk_format, bytes_per_chunk >>

\* What handle_event's caller does with its result: the loop goes on only after True.
AfterEvent(outcome) == IF outcome = "True" THEN "running" ELSE "ending"

\* ------------------------------------------------------------ handle_event
\* A Describe that also empties the audio buffer.
HandleDescribe_ClearsBuffer(s) ==
    /\ phase[s] = "running"
    /\ trace' = [trace EXCEPT ![s] = <<WriteCall(InfoEvent)>>]
    /\ last' = [last EXCEPT ![s] = Handled("describe", <<>>, "True")]
    /\ audio_buffer' = [audio_buffer EXCEPT ![s] = <<>>]
    /\ UNCHANGED << shared, created, connects, budget, phase, detector, chunk_format,
                    bytes_per_chunk, detected, stream, frames, positive >>

\* Describe
HandleDescribe(s) ==
    /\ phase[s] = "running"
    /\ trace' = [trace EXCEPT ![s] = <<WriteCall(InfoEvent)>>]
    /\ last' = [last EXCEPT ![s] = Handled("describe", <<>>, "True")]
    /\ phase' = [phase EXCEPT ![s] = AfterEvent("True")]
    /\ UNCHANGED << shared, created, connects, budget, detector, chunk_format, bytes_per_chunk,
                    audio_buffer, detected, stream, frames, positive >>

\* A Detect that loads whether or not names were given.
DetectLoads_Always(names) == TRUE

\* `if detect.names:`
DetectLoads(names) == names # <<>>

\* Detect
HandleDetect(s, names) ==
    /\ phase[s] = "running"
    /\ IF DetectLoads(names)
       THEN /\ created < MaxDetectors
            /\ \E o \in GetPorcupineOutcomes :
                 LET outcome == IF o = "ok" THEN "True" ELSE o
                 IN  /\ LoadKeyword(s, o)
                     /\ last' = [last EXCEPT ![s] = Handled("detect", names, outcome)]
                     /\ phase' = [phase EXCEPT ![s] = AfterEvent(outcome)]
       ELSE /\ UNCHANGED << created, detector, chunk_format, bytes_per_chunk >>
            /\ last' = [last EXCEPT ![s] = Handled("detect", names, "True")]
            /\ phase' = [phase EXCEPT ![s] = AfterEvent("True")]
    /\ trace' = [trace EXCEPT ![s] = <<>>]
    /\ UNCHANGED << shared, connects, budget, audio_buffer, detected, stream, frames,
                    positive >>

\* An AudioStart that also empties the audio buffer.
HandleAudioStart_ClearsBuffer(s) ==
    /\ phase[s] = "running"
    /\ detected' = [detected EXCEPT ![s] = FALSE]
    /\ positive' = [positive EXCEPT ![s] = FALSE]
    /\ trace' = [trace EXCEPT ![s] = <<>>]
    /\ last' = [last EXCEPT ![s] = Handled("audio-start", <<>>, "True")]
    /\ audio_buffer' = [audio_buffer EXCEPT ![s] = <<>>]
    /\ UNCHANGED << shared, created, connects, budget, phase, detector, chunk_format,
                    bytes_per_chunk, stream, frames >>

\* AudioStart
HandleAudioStart(s) ==
    /\ phase[s] = "running"
    /\ detected' = [detected EXCEPT ![s] = FALSE]
    /\ positive' = [positive EXCEPT ![s] = FALSE]
    /\ trace' = [trace EXCEPT ![s] = <<>>]
    /\ last' = [last EXCEPT ![s] = Handled("audio-start", <<>>, "True")]
    /\ phase' = [phase EXCEPT ![s] = AfterEvent("True")]
    /\ UNCHANGED << shared, created, connects, budget, detector, chunk_format, bytes_per_chunk,
                    audio_buffer, stream, frames >>

\* A 16 bit little-endian pair of bytes as a signed sample (struct format "h").
Sample(lo, hi) ==
    LET u == lo + 256 * hi
    IN  IF u >= 32768 THEN u - 65536 ELSE u

\* struct.unpack_from(self.chunk_format, data)
Unpack(fmt, data) == [i \in 1..fmt |-> Sample(data[2 * i - 1], data[2 * i])]

\* A frame cut from the newest bytes instead of the oldest.
Frame_Newest(buf, bpc) == SubSeq(buf, Len(buf) - bpc + 1, Len(buf))

\* self.audio_buffer[: self.bytes_per_chunk]
Frame(buf, bpc) == SubSeq(buf, 1, bpc)

\* A slice that drops one byte more than the frame.
Rest_OneMore(buf, bpc) == SubSeq(buf, bpc + 2, Len(buf))

\* self.audio_buffer[self.bytes_per_chunk :]
Rest(buf, bpc) == SubSeq(buf, bpc + 1, Len(buf))

\* The number of times the body of the while loop runs.
RECURSIVE Iterations(_, _)
Iterations(buf, bpc) ==
    IF Len(buf) >= bpc THEN 1 + Iterations(Rest(buf, bpc), bpc) ELSE 0

\* A loop that reports only indices above 0.
RECURSIVE Drain_SkipsIndexZero(_, _, _, _, _)
Drain_SkipsIndexZero(st, bpc, fmt, res, ts) ==
    IF Len(st.buffer) >= bpc
    THEN LET unpacked_chunk == Unpack(fmt, Frame(st.buffer, bpc))
             keyword_index == Head(res)
             written == IF keyword_index > 0
                        THEN <<WriteCall(DetectionEvent(keyword_index, ts))>>
                        ELSE <<>>
         IN  Drain_SkipsIndexZero(
                   [buffer |-> Rest(st.buffer, bpc),
                    frames |-> Append(st.frames, unpacked_chunk),
                    trace |-> st.trace \o <<ProcessCall(keyword_index)>> \o written,
                    positive |-> st.positive \/ keyword_index >= 0],
                   bpc, fmt, Tail(res), ts)
    ELSE st

\* A loop that stops while a whole frame is still buffered.
RECURSIVE Drain_StopsEarly(_, _, _, _, _)
Drain_StopsEarly(st, bpc, fmt, res, ts) ==
    IF Len(st.buffer) > bpc
    THEN LET unpacked_chunk == Unpack(fmt, Frame(st.buffer, bpc))
             keyword_index == Head(res)
             written == IF keyword_index >= 0
                        THEN <<WriteCall(DetectionEvent(keyword_index, ts))>>
                        ELSE <<>>
         IN  Drain_StopsEarly(
                   [buffer |-> Rest(st.buffer, bpc),
                    frames |-> Append(st.frames, unpacked_chunk),
                    trace |-> st.trace \o <<ProcessCall(keyword_index)>> \o written,
                    positive |-> st.positive \/ keyword_index >= 0],
                   bpc, fmt, Tail(res), ts)
    ELSE st

\* The while loop over st = [buffer, frames, trace, positive]; res holds the engine's
\* answers to the successive process() calls.
RECURSIVE Drain(_, _, _, _, _)
Drain(st, bpc, fmt, res, ts) ==
    IF Len(st.buffer) >= bpc
    THEN LET unpacked_chunk == Unpack(fmt, Frame(st.buffer, bpc))
             keyword_index == Head(res)
             written == IF keyword_index >= 0
                        THEN <<WriteCall(DetectionEvent(keyword_index, ts))>>
                        ELSE <<>>
         IN  Drain([buffer |-> Rest(st.buffer, bpc),
                    frames |-> Append(st.frames, unpacked_chunk),
                    trace |-> st.trace \o <<ProcessCall(keyword_index)>> \o written,
                    positive |-> st.positive \/ keyword_index >= 0],
                   bpc, fmt, Tail(res), ts)
    ELSE st

\* The values porcupine.process can return: -1 or the index of a loaded keyword.
Indices == -1 .. (Len(KeywordsPaths(keywords)) - 1)

\* The part of AudioChunk after the detector is bound, with frame size bpc.
Buffering(s, audio, ts, bpc, fmt) ==
    LET buf == audio_buffer[s] \o audio
    IN  \E res \in [1..Iterations(buf, bpc) -> Indices] :
          LET end == Drain([buffer |-> buf, frames |-> frames[s], trace |-> <<>>,
                            positive |-> positive[s]], bpc, fmt, res, ts)
          IN  /\ audio_buffer' = [audio_buffer EXCEPT ![s] = end.buffer]
              /\ frames' = [frames EXCEPT ![s] = end.frames]
              /\ trace' = [trace EXCEPT ![s] = end.trace]
              /\ positive' = [positive EXCEPT ![s] = end.positive]
              /\ stream' = [stream EXCEPT ![s] = stream[s] \o audio]

\* AudioChunk
HandleAudioChunk(s, audio, ts) ==
    /\ phase[s] = "running"
    /\ Len(audio) <= budget
    /\ budget' = budget - Len(audio)
    /\ IF detector[s] = NoDetector
       THEN /\ created < MaxDetectors
            /\ \E o \in GetPorcupineOutcomes :
                 /\ LoadKeyword(s, o)
                 /\ IF o = "ok"
                    THEN /\ Buffering(s, audio, ts, FrameLength * 2, FrameLength)
                         /\ last' = [last EXCEPT ![s] =
                                       Handled("audio-chunk", <<>>, "True")]
                         /\ phase' = [phase EXCEPT ![s] = AfterEvent("True")]
                    ELSE /\ UNCHANGED << audio_buffer, frames, positive, stream >>
                         /\ trace' = [trace EXCEPT ![s] = <<>>]
                         /\ last' = [last EXCEPT ![s] =
                                       Handled("audio-chunk", <<>>, o)]
                         /\ phase' = [phase EXCEPT ![s] = AfterEvent(o)]
       ELSE /\ UNCHANGED << created, detector, chunk_format, bytes_per_chunk >>
            /\ Buffering(s, audio, ts, bytes_per_chunk[s], chunk_format[s])
            /\ last' = [last EXCEPT ![s] = Handled("audio-chunk", <<>>, "True")]
            /\ phase' = [phase EXCEPT ![s] = AfterEvent("True")]
    /\ UNCHANGED << shared, connects, detected >>

\* An AudioStop that never reports.
NotDetectedWrites_Never(det) == <<>>

\* `if not self.detected: await self.write_event(NotDetected().event())`
NotDetectedWrites(det) == IF ~det THEN <<WriteCall(NotDetectedEvent)>> ELSE <<>>

\* An AudioStop branch that falls through to `return True`.
AudioStopResult_True == "True"

\* `return False` of the AudioStop branch
AudioStopResult == "False"

\* AudioStop
HandleAudioStop(s) ==
    /\ phase[s] = "running"
    /\ trace' = [trace EXCEPT ![s] = NotDetectedWrites(detected[s])]
    /\ last' = [last EXCEPT ![s] = Handled("audio-stop", <<>>, AudioStopResult)]
    /\ phase' = [phase EXCEPT ![s] = AfterEvent(AudioStopResult)]
    /\ UNCHANGED << shared, created, connects, budget, detector, chunk_format, bytes_per_chunk,
                    audio_buffer, detected, stream, frames, positive >>

\* Any other event type
HandleOther(s) ==
    /\ phase[s] = "running"
    /\ trace' = [trace EXCEPT ![s] = <<>>]
    /\ last' = [last EXCEPT ![s] = Handled("other", <<>>, "True")]
    /\ phase' = [phase EXCEPT ![s] = AfterEvent("True")]
    /\ UNCHANGED << shared, created, connects, budget, detector, chunk_format, bytes_per_chunk,
                    audio_buffer, detected, stream, frames, positive >>

\* -------------------------------------------------------------- disconnect
\* State.detector_cache after disconnect's critical section gave up detector d
\* (the append to the cache is commented out).
CacheAfterRelease(cache, d) == cache

\* A disconnect that forgets to give up the detector.
Disconnect_KeepsDetector(s) ==
    /\ phase[s] \in {"running", "ending"}
    /\ phase' = [phase EXCEPT ![s] = "disconnected"]
    /\ stream' = [stream EXCEPT ![s] = <<>>]
    /\ frames' = [frames EXCEPT ![s] = <<>>]
    /\ positive' = [positive EXCEPT ![s] = FALSE]
    /\ last' = [last EXCEPT ![s] = NothingHandled]
    /\ trace' = [trace EXCEPT ![s] = <<>>]
    /\ UNCHANGED << shared, detector, created, connects, budget, chunk_format,
                    bytes_per_chunk, audio_buffer, detected >>

\* disconnect: runs when the event loop ends (handle_event returned False or raised)
\* or the transport closes.  The record of what the handler did ends with it.
Disconnect(s) ==
    /\ phase[s] \in {"running", "ending"}
    /\ IF detector[s] # NoDetector
       THEN /\ detector_lock = FALSE
            /\ detector_cache' = CacheAfterRelease(detector_cache, detector[s])
            /\ detector' = [detector EXCEPT ![s] = NoDetector]
            /\ detector_lock' = FALSE
       ELSE UNCHANGED << detector_cache, detector_lock, detector >>
    /\ phase' = [phase EXCEPT ![s] = "disconnected"]
    /\ stream' = [stream EXCEPT ![s] = <<>>]
    /\ frames' = [frames EXCEPT ![s] = <<>>]
    /\ positive' = [positive EXCEPT ![s] = FALSE]
    /\ last' = [last EXCEPT ![s] = NothingHandled]
    /\ trace' = [trace EXCEPT ![s] = <<>>]
    /\ UNCHANGED << keywords, pv_lib_paths, created, connects, budget, chunk_format,
                    bytes_per_chunk, audio_buffer, detected >>

Next ==
    \E s \in Sessions :
        \/ Connect(s)
        \/ HandleDescribe(s)
        \/ \E names \in DetectNames : HandleDetect(s, names)
        \/ HandleAudioStart(s)
        \/ \E audio \in ChunkAudio, ts \in Timestamps : HandleAudioChunk(s, audio, ts)
        \/ HandleAudioStop(s)
        \/ HandleOther(s)
        \/ Disconnect(s)

Spec == Init /\ [][Next]_vars

SpecAudio == InitAudio /\ [][Next]_vars


\* ------------------------------------------------------------- properties
\* The handlers that exist: constructed and not yet disconnected.
Live == {s \in Sessions : phase[s] \in {"running", "ending"}}

\* The names of the keywords loaded into every detector, in index order.
LoadedNames == [i \in 1..Len(KeywordsPaths(keywords)) |-> PathName(KeywordsPaths(keywords)[i])]

\* The names of the registry.
KeywordNames == {keywords[i].name : i \in 1..Len(keywords)}

\* The events written while the last event was handled.
Written(s) == {trace[s][i].event : i \in {j \in 1..Len(trace[s]) : trace[s][j].op = "write"}}

\* C1: with frame byte length F = frame_length * 2, however the n bytes received so
\* far were split into chunks, process() has been called floor(n / F) times.
C1_FrameCount ==
    \A s \in Live :
        detector[s] # NoDetector =>
            /\ bytes_per_chunk[s] = FrameLength * 2
            /\ Len(frames[s]) * bytes_per_chunk[s] <= Len(stream[s])
            /\ Len(stream[s]) < (Len(frames[s]) + 1) * bytes_per_chunk[s]

\* Two frames were processed and a partial frame is buffered by a chunk that
\* completed no frame.
C1_Witness ==
    \E s \in Live :
        /\ Len(frames[s]) = 2
        /\ Len(audio_buffer[s]) = bytes_per_chunk[s] - 1
        /\ last[s].type = "audio-chunk"
        /\ trace[s] = <<>>

\* C2: the i-th process() call receives the samples of bytes [i*F, (i+1)*F) of the
\* concatenation of the chunks, and the bytes after the last frame are the buffer.
C2_FramesAreSlices ==
    \A s \in Live :
        detector[s] # NoDetector =>
            LET F == bytes_per_chunk[s]
            IN  /\ \A i \in 1..Len(frames[s]) :
                     /\ i * F <= Len(stream[s])
                     /\ frames[s][i] =
                          Unpack(chunk_format[s], SubSeq(stream[s], (i - 1) * F + 1, i * F))
                /\ audio_buffer[s] =
                     SubSeq(stream[s], Len(frames[s]) * F + 1, Len(stream[s]))

\* Two different frames were processed, after a Detect and an AudioStart came
\* between the chunks or not.
C2_Witness ==
    \E s \in Live :
        /\ Len(frames[s]) = 2
        /\ frames[s][1] # frames[s][2]
        /\ audio_buffer[s] # <<>>

\* C3: an AudioStop after a process() call returned an index >= 0 since the last
\* AudioStart writes no NotDetected event.
C3_NoNotDetectedAfterDetection ==
    \A s \in Live :
        (last[s].type = "audio-stop" /\ positive[s]) => NotDetectedEvent \notin Written(s)

\* C4: an AudioStop with no process() call returning an index >= 0 since the last
\* AudioStart writes exactly one event, NotDetected.
C4_NotDetectedWithoutDetection ==
    \A s \in Live :
        (last[s].type = "audio-stop" /\ ~positive[s]) =>
            trace[s] = <<WriteCall(NotDetectedEvent)>>

\* An AudioStop was handled after frames were processed, none with a detection.
C4_Witness ==
    \E s \in Live :
        /\ last[s].type = "audio-stop"
        /\ ~positive[s]
        /\ frames[s] # <<>>

\* C5: a Detection written after process() returned index i carries the name of the
\* i-th loaded keyword.
C5_DetectionNamesMatchedKeyword ==
    \A s \in Live :
        \A j \in 2..Len(trace[s]) :
            (trace[s][j].op = "write" /\ trace[s][j].event.type = "detection") =>
                /\ trace[s][j - 1].op = "process"
                /\ trace[s][j - 1].index >= 0
                /\ trace[s][j].event.name = LoadedNames[trace[s][j - 1].index + 1]

\* C6: no detector instance is bound to two sessions at once, and no bound instance
\* is idle in the cache.
C6_PoolExclusivity ==
    \A s \in Sessions :
        detector[s] # NoDetector =>
            /\ \A t \in Sessions \ {s} : detector[t] # detector[s]
            /\ detector[s] \notin detector_cache

\* Two sessions hold a detector at the same time.
C6_Witness ==
    \A s \in Sessions : phase[s] = "running" /\ detector[s] # NoDetector

\* C7: when a session with a bound detector disconnects, that detector is idle in the
\* cache afterwards.
C7_ReleaseReturnsToPool ==
    [][\A s \in Sessions :
          (phase[s] \in {"running", "ending"} /\ phase'[s] = "disconnected"
             /\ detector[s] # NoDetector)
          => detector[s] \in detector_cache']_vars

\* C8 as claimed: after AudioStop is handled the session goes on with its event loop.
C8_SessionContinuesAfterAudioStop ==
    \A s \in Live : last[s].type = "audio-stop" => phase[s] = "running"

\* C8: handling AudioStop returns False, which ends the event loop of the session;
\* every other event that is handled without an exception returns True.
C8_AudioStopEndsSession ==
    \A s \in Live :
        /\ last[s].type = "audio-stop" => (last[s].outcome = "False" /\ phase[s] = "ending")
        /\ phase[s] = "running" => last[s].type # "audio-stop"

\* An AudioStop was handled in a session that had processed audio.
C8_Witness ==
    \E s \in Live :
        /\ last[s].type = "audio-stop"
        /\ phase[s] = "ending"
        /\ stream[s] # <<>>

\* C9 as claimed: after a Detect without names is handled, a detector is bound and
\* the frame byte length is set from it.
C9_DetectWithoutNamesArms ==
    \A s \in Live :
        (last[s].type = "detect" /\ last[s].names = <<>>) =>
            (detector[s] # NoDetector /\ bytes_per_chunk[s] = FrameLength * 2)

\* C9: a Detect without names handled by a session with no bound detector acquires
\* nothing: the session stays unbound with frame byte length 0 and goes on.
C9_DetectWithoutNamesLeavesUnarmed ==
    [][\A s \in Sessions :
          (HandleDetect(s, <<>>) /\ detector[s] = NoDetector) =>
              /\ detector'[s] = NoDetector
              /\ bytes_per_chunk'[s] = 0
              /\ created' = created
              /\ phase'[s] = "running"]_vars

\* A Detect without names was handled and the session has no detector, although the
\* registry and the engine resource would allow one.
C9_Witness ==
    \E s \in Live :
        /\ last[s] = Handled("detect", <<>>, "True")
        /\ detector[s] = NoDetector
        /\ GetPorcupineOutcomes = {"ok", "PorcupineError"}

\* C10: a Detect whose first name is not in the registry ends in an error and binds
\* no detector.
C10_UnknownKeywordFails ==
    \A s \in Live :
        (last[s].type = "detect" /\ last[s].names # <<>>
           /\ Head(last[s].names) \notin KeywordNames)
        => (last[s].outcome \notin {"True", "False"} /\ phase[s] = "ending")

\* The fields of handler s that the code reads and writes.
SessionFields(s) ==
    << detector[s], chunk_format[s], bytes_per_chunk[s], audio_buffer[s], detected[s] >>

\* Everything the model holds about session s.
SessionState(s) ==
    << SessionFields(s), phase[s], stream[s], frames[s], positive[s], last[s], trace[s] >>

\* C11: Describe, in whatever state the session is, writes exactly one Info event,
\* leaves the buffer, the detector, the frame size and the detected flag as they
\* were, and the session goes on; a repeated Describe changes nothing at all.
C11_DescribeIsStateless ==
    [][\A s \in Sessions :
          (phase[s] = "running" /\ last'[s].type = "describe") =>
              /\ SessionFields(s)' = SessionFields(s)
              /\ trace'[s] = <<WriteCall(InfoEvent)>>
              /\ last'[s].outcome = "True"
              /\ phase'[s] = "running"
              /\ (last[s].type = "describe" => SessionState(s)' = SessionState(s))]_vars

\* A Describe was handled by an armed session holding a partial frame.
C11_Witness ==
    \E s \in Live :
        /\ last[s].type = "describe"
        /\ detector[s] # NoDetector
        /\ audio_buffer[s] # <<>>

\* C12: while one event is handled, every process() call that returns an index >= 0 is
\* followed at once by one Detection write, a call that returns a negative index by
\* none, every Detection follows such a call, and AudioStop writes no Detection.
C12_OneDetectionPerHit ==
    \A s \in Live :
        /\ \A j \in 1..Len(trace[s]) :
             LET e == trace[s][j]
             IN  /\ (e.op = "process" /\ e.index >= 0) =>
                       /\ j < Len(trace[s])
                       /\ trace[s][j + 1].op = "write"
                       /\ trace[s][j + 1].event.type = "detection"
                 /\ (e.op = "process" /\ e.index < 0) =>
                       (j = Len(trace[s]) \/ trace[s][j + 1].op = "process")
                 /\ (e.op = "write" /\ e.event.type = "detection") =>
                       /\ j > 1
                       /\ trace[s][j - 1].op = "process"
                       /\ trace[s][j - 1].index >= 0
                 /\ e.op = "process" => last[s].type = "audio-chunk"
        /\ last[s].type = "audio-stop" =>
             \A e \in Written(s) : e.type # "detection"

\* One chunk held two frames: the first was a hit and was reported before the second
\* was processed.
C12_Witness ==
    \E s \in Live :
        /\ Len(trace[s]) = 3
        /\ trace[s][1].op = "process" /\ trace[s][1].index >= 0
        /\ trace[s][2].op = "write"
        /\ trace[s][3].op = "process" /\ trace[s][3].index < 0

\* C13: a Detect handled by a session that has a bound detector acquires nothing and
\* leaves the bound detector in place.
C13_DetectKeepsBoundDetector ==
    [][\A s \in Sessions : \A names \in DetectNames :
          (HandleDetect(s, names) /\ detector[s] # NoDetector) =>
              (detector'[s] = detector[s] /\ created' = created)]_vars

\* C14 as claimed: a disconnected session has no detector, an empty buffer and
\* detected = false.
C14_DisconnectClearsAll ==
    \A s \in Sessions :
        phase[s] = "disconnected" =>
            (detector[s] = NoDetector /\ audio_buffer[s] = <<>> /\ ~detected[s])

\* C14: disconnect, after AudioStop, after an exception or on a transport close,
\* leaves the session without a detector; the buffer, the frame size and the
\* detected flag stay as they were.
C14_DisconnectUnbindsOnly ==
    [][\A s \in Sessions :
          (phase[s] \in {"running", "ending"} /\ phase'[s] = "disconnected") =>
              /\ detector'[s] = NoDetector
              /\ audio_buffer'[s] = audio_buffer[s]
              /\ bytes_per_chunk'[s] = bytes_per_chunk[s]
              /\ chunk_format'[s] = chunk_format[s]
              /\ detected'[s] = detected[s]]_vars

\* A session that was armed disconnected with a partial frame in its buffer.
C14_Witness ==
    \E s \in Sessions :
        /\ phase[s] = "disconnected"
        /\ bytes_per_chunk[s] > 0
        /\ detector[s] = NoDetector
        /\ audio_buffer[s] # <<>>

\* C15: AudioStart leaves detected = false, acquires nothing, writes nothing, leaves
\* the buffer, the detector and the frame size as they were, and the session goes on.
C15_AudioStartOnlyResets ==
    [][\A s \in Sessions :
          (phase[s] = "running" /\ last'[s].type = "audio-start") =>
              /\ ~detected'[s]
              /\ trace'[s] = <<>>
              /\ detector'[s] = detector[s]
              /\ chunk_format'[s] = chunk_format[s]
              /\ bytes_per_chunk'[s] = bytes_per_chunk[s]
              /\ audio_buffer'[s] = audio_buffer[s]
              /\ last'[s].outcome = "True"
              /\ phase'[s] = "running"
              /\ (last'[s] # last[s] => created' = created)]_vars

\* An AudioStart was handled by a session without a detector.
C15_Witness ==
    \E s \in Live :
        /\ last[s].type = "audio-start"
        /\ detector[s] = NoDetector
        /\ phase[s] = "running"

\* C16: an AudioChunk that was handled to the end found or bound a detector and its
\* frame size first; one whose acquisition failed appended and processed nothing;
\* no frame is ever processed by a session without a detector.
C16_BoundBeforeFraming ==
    \A s \in Live :
        /\ (last[s].type = "audio-chunk" /\ last[s].outcome = "True") =>
              /\ detector[s] # NoDetector
              /\ bytes_per_chunk[s] = FrameLength * 2
              /\ chunk_format[s] = FrameLength
        /\ (last[s].type = "audio-chunk" /\ last[s].outcome # "True") =>
              /\ detector[s] = NoDetector
              /\ trace[s] = <<>>
        /\ (frames[s] # <<>> \/ stream[s] # <<>>) =>
              (detector[s] # NoDetector /\ bytes_per_chunk[s] > 0)

\* The only session there was bound the only engine instance and has processed one
\* frame of the only audio it received.
C16_Witness ==
    \E s \in Live :
        /\ last[s].type = "audio-chunk"
        /\ Len(frames[s]) = 1
        /\ created = 1
        /\ connects = 1
        /\ budget = MaxBytes - FrameLength * 2

\* C17: with an empty registry an acquisition ends in the "No keywords" ValueError
\* and the session has no detector.
C17_NoKeywordsError ==
    \A s \in Live :
        (keywords = <<>> /\ last[s].type = "audio-chunk") =>
            (last[s].outcome = "ValueError" /\ detector[s] = NoDetector)

\* The languages of the registry.
Languages == {keywords[i].language : i \in 1..Len(keywords)}

\* C18 as claimed: no detector is bound from a registry of two languages.
C18_MixedLanguageFails ==
    \A s \in Live : Cardinality(Languages) > 1 => detector[s] = NoDetector

\* C18: a detector is built from the "en" keywords of the registry only, in registry
\* order, with the "en" engine resource; keywords of other languages are skipped
\* and do not make the acquisition fail.
C18_OnlyEnglishLoaded ==
    \A s \in Live :
        detector[s] # NoDetector =>
            LET paths == KeywordsPaths(keywords)
            IN  /\ paths # <<>>
                /\ "en" \in pv_lib_paths
                /\ \A i \in 1..Len(paths) : paths[i][1] = "en"
                /\ {paths[i] : i \in 1..Len(paths)} =
                     {keywords[i].model_path :
                        i \in {j \in 1..Len(keywords) : keywords[j].language = "en"}}

\* A detector built from a registry of two languages has processed a frame.
C18_Witness ==
    \E s \in Live :
        /\ Cardinality(Languages) > 1
        /\ detector[s] # NoDetector
        /\ frames[s] # <<>>

\* C19: an event that ends in an acquisition failure leaves the registry, the cache,
\* the lock (free), the count of engine instances and all of every other session.
C19_FailureIsLocal ==
    [][\A s \in Sessions :
          (phase[s] = "running" /\ phase'[s] = "ending"
             /\ last'[s].outcome \notin {"True", "False"}) =>
              /\ shared' = shared
              /\ detector_lock' = FALSE
              /\ created' = created
              /\ \A t \in Sessions \ {s} : SessionState(t)' = SessionState(t)]_vars

\* One session failed to acquire while the other holds a detector and has
\* processed a frame.
C19_Witness ==
    \E s \in Sessions : \E t \in Sessions \ {s} :
        /\ phase[s] = "ending"
        /\ last[s].outcome = "PorcupineError"
        /\ phase[t] = "running"
        /\ detector[t] # NoDetector
        /\ frames[t] # <<>>

\* C20: a bound session has frame byte length 2 * frame_length and a format of
\* frame_length samples, and its buffer holds less than one frame.
C20_PartialFrameOnly ==
    \A s \in Live :
        detector[s] # NoDetector =>
            /\ bytes_per_chunk[s] = 2 * FrameLength
            /\ chunk_format[s] = FrameLength
            /\ Len(audio_buffer[s]) < bytes_per_chunk[s]

\* A chunk of more than a frame was handled and left a partial frame.
C20_Witness ==
    \E s \in Live :
        /\ last[s].type = "audio-chunk"
        /\ Len(trace[s]) > 0
        /\ Len(audio_buffer[s]) = bytes_per_chunk[s] - 1
        /\ audio_buffer[s] # <<>>

====
